---- MODULE Spec2Model ----
(***************************************************************************)
(* Fallback search engine of the chess learner (src/ai.py): fixed-depth    *)
(* minimax with alpha-beta pruning over a material evaluation, run on a    *)
(* mutable board with push/pop.                                            *)
(*                                                                         *)
(* The rules library (python-chess) is the environment of the search.  It  *)
(* is modelled by the rules of chess on a board of one rank and NumSquares *)
(* files: kings step to a neighbouring file, queens and rooks slide along  *)
(* the rank, bishops, knights and pawns have no move on one rank but stand *)
(* on the board, block lines, count as material and can be captured.       *)
(* Castling, en passant and promotion do not arise on such a board.        *)
(***************************************************************************)
EXTENDS Integers, Sequences, FiniteSets, TLC

\* ------------------------------------------------------------------ bounds
NumSquares == 6
MaxCalls == 2

\* depth=3: the depth every caller of _minimax_root passes
FallbackDepth == 3

\* ------------------------------------------------- piece types and values
PAWN == 1
KNIGHT == 2
BISHOP == 3
ROOK == 4
QUEEN == 5
KING == 6

PIECE_VALUES == <<100, 320, 330, 500, 900, 20000>>

\* float('inf') and float('-inf'): compared and copied, never added to.
PosInf == 1000000
NegInf == -1000000

WHITE == TRUE
BLACK == FALSE

\* ------------------------------------------------------------- the board
Squares == 1..NumSquares
Empty == 0
\* A square holds Empty, a white piece (its type) or a black one (minus it).
PieceCode(color, ptype) == IF color = WHITE THEN ptype ELSE 0 - ptype
PieceType(p) == IF p < 0 THEN 0 - p ELSE p
PieceColor(p) == p > 0

NoMove == [from |-> 0, to |-> 0]
SeventyFive == 150

Between(a, b) == {s \in Squares : (a < s /\ s < b) \/ (b < s /\ s < a)}

\* The piece on square s attacks square t.
Attacks(sq, s, t) ==
    LET ty == PieceType(sq[s]) IN
    /\ s # t
    /\ \/ ty = KING /\ (t = s + 1 \/ t = s - 1)
       \/ ty \in {ROOK, QUEEN} /\ \A x \in Between(s, t) : sq[x] = Empty

IsAttackedBy(sq, color, t) ==
    \E s \in Squares : sq[s] # Empty /\ PieceColor(sq[s]) = color /\ Attacks(sq, s, t)

\* chess.Board.king(color): the king's square, or none (0) on a board without it.
KingSquare(sq, color) ==
    IF \E s \in Squares : sq[s] = PieceCode(color, KING)
    THEN CHOOSE s \in Squares : sq[s] = PieceCode(color, KING)
    ELSE 0

InCheck(sq, color) ==
    /\ KingSquare(sq, color) # 0
    /\ IsAttackedBy(sq, ~color, KingSquare(sq, color))

ApplyMove(sq, m) == [sq EXCEPT ![m.to] = sq[m.from], ![m.from] = Empty]

PseudoLegal(sq, color) ==
    {m \in [from : Squares, to : Squares] :
        /\ sq[m.from] # Empty
        /\ PieceColor(sq[m.from]) = color
        /\ Attacks(sq, m.from, m.to)
        /\ (sq[m.to] = Empty \/ PieceColor(sq[m.to]) # color)}

LegalMoveSet(b) ==
    {m \in PseudoLegal(b.sq, b.turn) : ~InCheck(ApplyMove(b.sq, m), b.turn)}

MoveKey(m) == m.from * (NumSquares + 1) + m.to

RECURSIVE SortMoves(_)
SortMoves(S) ==
    IF S = {} THEN <<>>
    ELSE LET m == CHOOSE x \in S : \A y \in S : MoveKey(x) <= MoveKey(y)
         IN <<m>> \o SortMoves(S \ {m})

\* list(board.pseudo_legal_moves) in its place would keep moves that leave the
\* mover's king attacked.
PseudoLegalMoves(b) == SortMoves(PseudoLegal(b.sq, b.turn))

\* list(board.legal_moves): the legal moves in the library's generation order.
LegalMoves(b) == SortMoves(LegalMoveSet(b))

IsCapture(b, m) == b.sq[m.to] # Empty

IsCheck(b) == InCheck(b.sq, b.turn)
IsCheckmate(b) == IsCheck(b) /\ LegalMoveSet(b) = {}
IsStalemate(b) == ~IsCheck(b) /\ LegalMoveSet(b) = {}

PiecesOf(sq, color, types) ==
    {s \in Squares : sq[s] # Empty /\ PieceColor(sq[s]) = color /\ PieceType(sq[s]) \in types}

\* chess.Board.has_insufficient_material(color)
HasInsufficientMaterial(sq, color) ==
    LET bishops == {s \in Squares : PieceType(sq[s]) = BISHOP}
    IN IF PiecesOf(sq, color, {PAWN, ROOK, QUEEN}) # {} THEN FALSE
       ELSE IF PiecesOf(sq, color, {KNIGHT}) # {}
       THEN /\ Cardinality(PiecesOf(sq, color, 1..6)) <= 2
            /\ PiecesOf(sq, ~color, {PAWN, KNIGHT, BISHOP, ROOK}) = {}
       ELSE IF PiecesOf(sq, color, {BISHOP}) # {}
       THEN /\ \/ \A s \in bishops : s % 2 = 0
               \/ \A s \in bishops : s % 2 = 1
            /\ \A s \in Squares : PieceType(sq[s]) \notin {PAWN, KNIGHT}
       ELSE TRUE

IsInsufficientMaterial(b) ==
    HasInsufficientMaterial(b.sq, WHITE) /\ HasInsufficientMaterial(b.sq, BLACK)

IsSeventyFiveMoves(b) == b.halfmove >= SeventyFive /\ LegalMoveSet(b) # {}

\* chess.Board.is_game_over() with claim_draw = False
IsGameOver(b) ==
    \/ IsCheckmate(b)
    \/ IsStalemate(b)
    \/ IsInsufficientMaterial(b)
    \/ IsSeventyFiveMoves(b)

\* board.push(move): the undo record keeps what pop needs to restore.
Push(b, m) ==
    [sq |-> ApplyMove(b.sq, m),
     turn |-> ~b.turn,
     halfmove |-> IF IsCapture(b, m) \/ PieceType(b.sq[m.from]) = PAWN THEN 0 ELSE b.halfmove + 1,
     stack |-> Append(b.stack, [move |-> m, captured |-> b.sq[m.to], halfmove |-> b.halfmove])]

\* board.pop(): undo the most recently pushed move.
Pop(b) ==
    LET u == b.stack[Len(b.stack)] IN
    [sq |-> [b.sq EXCEPT ![u.move.from] = b.sq[u.move.to], ![u.move.to] = u.captured],
     turn |-> ~b.turn,
     halfmove |-> u.halfmove,
     stack |-> SubSeq(b.stack, 1, Len(b.stack) - 1)]


\* ------------------------------------------------------ start positions
\* Pieces that may stand on the board beside the two kings.
ExtraPieces ==
    {PieceCode(c, t) : c \in {WHITE, BLACK}, t \in {PAWN, KNIGHT, BISHOP, ROOK, QUEEN}}

KingsOnly ==
    {[s \in Squares |-> IF s = k[1] THEN PieceCode(WHITE, KING)
                        ELSE IF s = k[2] THEN PieceCode(BLACK, KING) ELSE Empty] :
        k \in {p \in Squares \X Squares : p[1] # p[2]}}

\* One more piece on a square, or none: <<0, 0>>.
Optional(pieces) == {<<0, 0>>} \cup (Squares \X pieces)
Fits(sq, e) == IF e[1] = 0 THEN TRUE ELSE sq[e[1]] = Empty
Place(sq, e) == IF e[1] = 0 THEN sq ELSE [sq EXCEPT ![e[1]] = e[2]]

\* The pieces of the searched positions.
SearchPieces(color) == {PieceCode(color, t) : t \in {PAWN, ROOK}}

\* A position the rules allow: the side that has just moved is not in check.
LegalPosition(sq, turn) == ~InCheck(sq, ~turn)

NewBoard(sq, turn, halfmove) ==
    [sq |-> sq, turn |-> turn, halfmove |-> halfmove, stack |-> <<>>]

\* ------------------------------------------------------------ evaluation
\* Black's pieces counted like White's.
PieceValueUnsigned(p) == PIECE_VALUES[PieceType(p)]

\* lines 210-214: value = PIECE_VALUES[piece.piece_type], added for a white
\* piece and subtracted for a black one
PieceValue(p) ==
    IF PieceColor(p) = WHITE THEN PIECE_VALUES[PieceType(p)]
    ELSE 0 - PIECE_VALUES[PieceType(p)]

\* lines 206-216: the loop over chess.SQUARES, from square s on
RECURSIVE MaterialFrom(_, _)
MaterialFrom(sq, s) ==
    IF s > NumSquares THEN 0
    ELSE (IF sq[s] = Empty THEN 0 ELSE PieceValue(sq[s])) + MaterialFrom(sq, s + 1)

\* The mate test reading the turn the wrong way round.
EvaluateMateSwapped(b) ==
    IF IsCheckmate(b) THEN (IF b.turn THEN PosInf ELSE NegInf)
    ELSE IF IsStalemate(b) \/ IsInsufficientMaterial(b) THEN 0
    ELSE MaterialFrom(b.sq, 1)

\* The draw test left out.
EvaluateNoDraw(b) ==
    IF IsCheckmate(b) THEN (IF b.turn THEN NegInf ELSE PosInf)
    ELSE MaterialFrom(b.sq, 1)

\* ChessAI._evaluate
Evaluate(b) ==
    IF IsCheckmate(b) THEN (IF b.turn THEN NegInf ELSE PosInf)
    ELSE IF IsStalemate(b) \/ IsInsufficientMaterial(b) THEN 0
    ELSE MaterialFrom(b.sq, 1)


\* ---------------------------------------------------- the application
\* class Difficulty
Difficulties == {"EASY", "MEDIUM", "HARD", "STOCKFISH"}

\* bound: processes of the application started on one machine
NumProcs == 3
Procs == 1..NumProcs

NoCaller == [entry |-> "none", failed |-> FALSE]
NoThread == [pc |-> "none"]

\* --------------------------------------------------------------- state
VARIABLES
    board,                \* the caller's chess.Board, borrowed by the search
    positions_evaluated,  \* ChessAI.positions_evaluated
    pc,                   \* "idle" | "root" | "enter" | "loop" | "return"
    frames,               \* active calls: _minimax_root, then nested _minimax
    ret,                  \* value returned by the _minimax call that just ended
    result,               \* move returned by the last call of _minimax_root
    call,                 \* the caller's depth; the board and counter at the call;
                          \* whether a cutoff has skipped a move during it
    rootValues,           \* value found for each root move examined so far
    history,              \* outcome of every completed call, oldest first
    engine,               \* ChessAI.engine: "none" or "loaded"
    difficulty,           \* ChessAI.difficulty
    caller,               \* what started the search in progress, and whether the
                          \* external engine had been tried and had failed
    parked,               \* the search of the other thread, while this one runs
    procs,                \* each process of the application: where it stands
    port,                 \* the process bound to LOCK_PORT, 0 when it is free
    mode,                 \* ChessLearner.mode
    game,                 \* ChessGame.move_history and position_history; its
                          \* board is the variable board
    ui,                   \* ChessLearner: player_color, game_over, ai_thinking,
                          \* paused_game, saved_game_moves
    puzzles,              \* PuzzleManager
    endgames,             \* EndgameTrainer
    openings              \* OpeningTrainer

\* The application around the search.
\* The game in play and the trainers.
trainVars == <<mode, game, ui, puzzles, endgames, openings>>

appVars == <<engine, difficulty, caller, parked, procs, port, trainVars>>

vars == <<board, positions_evaluated, pc, frames, ret, result, call, rootValues, history,
          appVars>>

RootFrame(b, depth, moves) ==
    [kind |-> "root", depth |-> depth, alpha |-> NegInf, beta |-> PosInf,
     maximizing |-> b.turn, moves |-> moves, idx |-> 1,
     best |-> IF b.turn THEN NegInf ELSE PosInf, bestMove |-> NoMove, cut |-> FALSE]

NodeFrame(depth, alpha, beta, maximizing) ==
    [kind |-> "node", depth |-> depth, alpha |-> alpha, beta |-> beta,
     maximizing |-> maximizing, moves |-> <<>>, idx |-> 1,
     best |-> IF maximizing THEN NegInf ELSE PosInf, bestMove |-> NoMove, cut |-> FALSE]

Top == frames[Len(frames)]
SetTop(f) == [frames EXCEPT ![Len(frames)] = f]
DropTop == SubSeq(frames, 1, Len(frames) - 1)

Max(a, b) == IF a >= b THEN a ELSE b
Min(a, b) == IF a <= b THEN a ELSE b

\* the root list left as it was enumerated
RootOrderUnsorted(b, moves) == moves

\* legal_moves.sort(key=lambda m: board.is_capture(m), reverse=True): stable.
RootOrder(b, moves) ==
    SelectSeq(moves, LAMBDA m : IsCapture(b, m)) \o
    SelectSeq(moves, LAMBDA m : ~IsCapture(b, m))

\* The flag _minimax_root passes down, read from the board after the push.
RootChildFlag(pushed) == ~pushed.turn

\* The two comparisons exchanged between the colours.
RootImprovesSwapped(turn, value, best) == IF turn THEN value < best ELSE value > best

\* A tie replacing the best move found so far.
RootImprovesOrTies(turn, value, best) == IF turn THEN value >= best ELSE value <= best

\* if board.turn: value > best_value  else: value < best_value
RootImproves(turn, value, best) == IF turn THEN value > best ELSE value < best

\* The test of the remaining depth alone, blind to a finished game.
BaseCaseDepthOnly(b, depth) == depth = 0

\* a search that goes on below a checkmate while depth remains
BaseCaseUnlessMate(b, depth) == depth = 0 \/ (IsGameOver(b) /\ ~IsCheckmate(b))

\* a search that stops only where the game is over
BaseCaseGameOverOnly(b, depth) == IsGameOver(b)

\* depth == 0 or board.is_game_over()
BaseCase(b, depth) == depth = 0 \/ IsGameOver(b)

\* a loop that is never cut short
CutoffNever(alpha, beta) == FALSE

\* if beta <= alpha: break
Cutoff(alpha, beta) == beta <= alpha

\* A break taken before the pop would leave the last move on the board.
UndoUnlessCut(b, cut) == IF cut THEN b ELSE Pop(b)

\* A loop body that never takes its move back.
UndoNever(b, cut) == b

\* board.pop() after the recursive call: it comes before the cutoff test, so the
\* move is undone whether or not the loop is about to break.
Undo(b, cut) == Pop(b)

\* What a completed call leaves behind for its caller (and for the record).
Outcome(c, count, move, value, order, values) ==
    [depth |-> c.depth, pre |-> c.pre, move |-> move, value |-> value,
     order |-> order, values |-> values, pruned |-> c.pruned,
     count |-> count, visited |-> count - c.start]

\* None, where a board is expected.
NoBoard == [sq |-> <<>>, turn |-> WHITE, halfmove |-> 0, stack |-> <<>>]

\* board.fen(): the placement, the side to move and the halfmove clock, without
\* the moves that led there.
Fen(b) == [sq |-> b.sq, turn |-> b.turn, halfmove |-> b.halfmove]

\* chess.Board(fen), board.set_fen(fen): the position with an empty move stack.
BoardFromFen(f) == [sq |-> f.sq, turn |-> f.turn, halfmove |-> f.halfmove, stack |-> <<>>]

\* self.paused_game = None
NoPaused == [fen |-> Fen(NoBoard), moves |-> <<>>, player_color |-> WHITE, id |-> 0]

\* ChessLearner.__init__, lines 100-127: the menu, a fresh game, trainers that
\* have not been started.
TrainersAtRest ==
    /\ mode = "MENU"
    /\ game = [move_history |-> <<>>, position_history |-> <<>>]
    /\ ui = [player_color |-> WHITE, game_over |-> FALSE, ai_thinking |-> FALSE,
             paused_game |-> NoPaused, saved_game_moves |-> <<>>,
             \* the games started so far, and which of them is on the board
             game_id |-> 0, playing |-> 0, error |-> FALSE]
    /\ puzzles = [current_puzzle |-> 0, current_move_index |-> 0, solved_puzzles |-> {},
                  practice_board |-> NoBoard]
    /\ endgames = [current_endgame |-> 0, practice_board |-> NoBoard, moves_made |-> 0]
    /\ openings = [current_opening |-> 0, current_move_index |-> 0,
                   practice_board |-> NoBoard, user_color |-> WHITE]

\* One process runs the application: ChessAI(Difficulty.MEDIUM), no engine found.
AppAlone ==
    /\ TrainersAtRest
    /\ engine = "none"
    /\ difficulty = "MEDIUM"
    /\ caller = NoCaller
    /\ parked = NoThread
    /\ procs = [p \in Procs |-> IF p = 1 THEN "running" ELSE "start"]
    /\ port = 1

Init ==
    /\ AppAlone
    /\ \E k \in KingsOnly, w \in Optional(SearchPieces(WHITE)),
          b \in Optional(SearchPieces(BLACK)), turn \in BOOLEAN, hm \in {0, SeventyFive - 1} :
          /\ Fits(k, w)
          /\ Fits(Place(k, w), b)
          /\ LegalPosition(Place(Place(k, w), b), turn)
          /\ board = NewBoard(Place(Place(k, w), b), turn, hm)
    /\ positions_evaluated = 0
    /\ pc = "idle"
    /\ frames = <<>>
    /\ ret = 0
    /\ result = NoMove
    /\ \E d \in 0..FallbackDepth :
          call = [depth |-> d, pre |-> board, start |-> 0, pruned |-> FALSE]
    /\ rootValues = <<>>
    /\ history = <<>>

\* _minimax_root(board, depth), lines 141-148, entered with the counter reset
\* by the caller or left as it is
StartSearch(reset) ==
    /\ pc = "idle"
    /\ Len(history) < MaxCalls
    /\ positions_evaluated' = IF reset THEN 0 ELSE positions_evaluated
    /\ call' = [call EXCEPT !.pre = board, !.start = positions_evaluated', !.pruned = FALSE]
    /\ rootValues' = <<>>
    /\ IF LegalMoves(board) = <<>>
       THEN /\ result' = NoMove
            /\ history' = Append(history,
                              Outcome(call', positions_evaluated', NoMove, 0, <<>>, <<>>))
            /\ UNCHANGED <<pc, frames>>
       ELSE /\ frames' = <<RootFrame(board, call.depth, RootOrder(board, LegalMoves(board)))>>
            /\ pc' = "root"
            /\ UNCHANGED <<result, history>>
    /\ UNCHANGED <<board, ret>>

\* get_best_move, lines 83 and 92-94, then _get_minimax_move, line 137
GetBestMove ==
    /\ call.depth = FallbackDepth
    /\ engine = "none"
    /\ difficulty # "EASY"
    /\ StartSearch(TRUE)
    /\ UNCHANGED appVars

\* _minimax_root called directly: get_hint line 268, review.py line 43
MinimaxRoot ==
    /\ StartSearch(FALSE)
    /\ UNCHANGED appVars

\* lines 150-152: push the next root move and call _minimax
RootPush ==
    /\ pc = "root"
    /\ Top.idx <= Len(Top.moves)
    /\ LET pushed == Push(board, Top.moves[Top.idx]) IN
       /\ board' = pushed
       /\ frames' = Append(frames,
                       NodeFrame(Top.depth - 1, NegInf, PosInf, RootChildFlag(pushed)))
    /\ pc' = "enter"
    /\ UNCHANGED <<positions_evaluated, ret, result, call, rootValues, history>>
    /\ UNCHANGED appVars

\* A node entered without being counted.
CountNothing(n) == n

\* self.positions_evaluated += 1
CountNode(n) == n + 1

\* _minimax, lines 169-177 / 188: count the node, base case or start the loop
MinimaxEnter ==
    /\ pc = "enter"
    /\ positions_evaluated' = CountNode(positions_evaluated)
    /\ IF BaseCase(board, Top.depth)
       THEN /\ ret' = Evaluate(board)
            /\ frames' = DropTop
            /\ pc' = "return"
       ELSE /\ frames' = SetTop([Top EXCEPT !.moves = LegalMoves(board)])
            /\ pc' = "loop"
            /\ UNCHANGED ret
    /\ UNCHANGED <<board, result, call, rootValues, history>>
    /\ UNCHANGED appVars

\* lines 179-180 / 190-191: push the next move and recurse
MinimaxPush ==
    /\ pc = "loop"
    /\ ~Top.cut
    /\ Top.idx <= Len(Top.moves)
    \* depth below 0 never meets depth == 0: the descent is followed this far
    /\ Len(frames) <= FallbackDepth
    /\ board' = Push(board, Top.moves[Top.idx])
    /\ frames' = Append(frames,
                    NodeFrame(Top.depth - 1, Top.alpha, Top.beta, ~Top.maximizing))
    /\ pc' = "enter"
    /\ UNCHANGED <<positions_evaluated, ret, result, call, rootValues, history>>
    /\ UNCHANGED appVars

\* lines 181-185 / 192-196: undo the move, fold the child's value, test the cutoff
MinimaxFold ==
    /\ pc = "return"
    /\ Top.kind = "node"
    /\ LET best == IF Top.maximizing THEN Max(Top.best, ret) ELSE Min(Top.best, ret)
           alpha == IF Top.maximizing THEN Max(Top.alpha, ret) ELSE Top.alpha
           beta == IF Top.maximizing THEN Top.beta ELSE Min(Top.beta, ret)
           cut == Cutoff(alpha, beta)
       IN /\ board' = Undo(board, cut)
          /\ frames' = SetTop([Top EXCEPT !.best = best, !.alpha = alpha, !.beta = beta,
                                          !.idx = @ + 1, !.cut = cut])
          /\ call' = [call EXCEPT !.pruned = @ \/ (cut /\ Top.idx < Len(Top.moves))]
    /\ pc' = "loop"
    /\ UNCHANGED <<positions_evaluated, ret, result, rootValues, history>>
    /\ UNCHANGED appVars

\* lines 186 / 197: return max_eval / min_eval
MinimaxReturn ==
    /\ pc = "loop"
    /\ Top.cut \/ Top.idx > Len(Top.moves)
    /\ ret' = Top.best
    /\ frames' = DropTop
    /\ pc' = "return"
    /\ UNCHANGED <<board, positions_evaluated, result, call, rootValues, history>>
    /\ UNCHANGED appVars

\* lines 153-162: undo the root move and keep it if it improves on the best
RootFold ==
    /\ pc = "return"
    /\ Top.kind = "root"
    /\ board' = Undo(board, FALSE)
    /\ LET better == RootImproves(board'.turn, ret, Top.best) IN
       frames' = SetTop([Top EXCEPT !.best = IF better THEN ret ELSE @,
                                    !.bestMove = IF better THEN Top.moves[Top.idx] ELSE @,
                                    !.idx = @ + 1])
    /\ rootValues' = Append(rootValues, ret)
    /\ pc' = "root"
    /\ UNCHANGED <<positions_evaluated, ret, result, call, history>>
    /\ UNCHANGED appVars

\* line 164: return best_move
RootReturn ==
    /\ pc = "root"
    /\ Top.idx > Len(Top.moves)
    /\ result' = Top.bestMove
    /\ history' = Append(history,
                  Outcome(call, positions_evaluated, Top.bestMove, Top.best, Top.moves,
                          rootValues))
    /\ frames' = <<>>
    /\ pc' = "idle"
    /\ UNCHANGED <<board, positions_evaluated, ret, call, rootValues>>
    /\ UNCHANGED appVars

Next ==
    \/ GetBestMove
    \/ MinimaxRoot
    \/ RootPush
    \/ MinimaxEnter
    \/ MinimaxPush
    \/ MinimaxFold
    \/ MinimaxReturn
    \/ RootFold
    \/ RootReturn

Spec == Init /\ [][Next]_vars

\* ------------------------------------------- the evaluation on its own
\* Positions handed to _evaluate: the two kings and up to two more pieces of
\* any kind, either side to move.
InitEval ==
    /\ AppAlone
    /\ \E k \in KingsOnly, x \in Optional(ExtraPieces), y \in Optional(ExtraPieces),
          turn \in BOOLEAN :
          /\ Fits(k, x)
          /\ Fits(Place(k, x), y)
          /\ LegalPosition(Place(Place(k, x), y), turn)
          /\ board = NewBoard(Place(Place(k, x), y), turn, 0)
    /\ positions_evaluated = 0
    /\ pc = "idle"
    /\ frames = <<>>
    /\ ret = 0
    /\ result = NoMove
    /\ call = [depth |-> 0, pre |-> board, start |-> 0, pruned |-> FALSE]
    /\ rootValues = <<>>
    /\ history = <<>>

\* self.ai._evaluate(board), review.py line 40
EvaluateCall ==
    /\ pc = "idle"
    /\ ret' = Evaluate(board)
    /\ pc' = "evaluated"
    /\ UNCHANGED <<board, positions_evaluated, frames, result, call, rootValues, history>>
    /\ UNCHANGED appVars

NextEval == EvaluateCall

SpecEval == InitEval /\ [][NextEval]_vars

\* ------------------------------------- two searches on one engine object
\* What a thread running a search keeps to itself: its board and its locals.
ThreadContext ==
    [board |-> board, pc |-> pc, frames |-> frames, ret |-> ret, result |-> result,
     call |-> call, rootValues |-> rootValues]

\* The scheduler takes the processor from the running thread and gives it to
\* the other one; self.ai and its counter belong to both.  A switch is taken
\* where the running thread is about to read or write the shared object (a
\* call about to start, a node about to be counted): all its other steps
\* touch its own board and locals only, so a switch anywhere else leads to
\* the same outcomes as one of these.
Switch ==
    /\ parked # NoThread
    /\ pc \in {"idle", "enter"}
    /\ board' = parked.board
    /\ pc' = parked.pc
    /\ frames' = parked.frames
    /\ ret' = parked.ret
    /\ result' = parked.result
    /\ call' = parked.call
    /\ rootValues' = parked.rootValues
    /\ parked' = ThreadContext
    /\ UNCHANGED <<positions_evaluated, history, engine, difficulty, caller, procs, port,
                   trainVars>>

\* bound: the depth both threads search to
SharedDepth == 2

\* Boards of the two threads: the kings in the corners; one thread's board has
\* at most one more piece, a black one, the other's has a rook and a pawn.
CornerKings ==
    [s \in Squares |-> IF s = 1 THEN PieceCode(WHITE, KING)
                       ELSE IF s = NumSquares THEN PieceCode(BLACK, KING) ELSE Empty]

\* The other thread's board: White to move with a rook, Black with a pawn.
OtherBoard ==
    NewBoard(Place(Place(CornerKings, <<3, PieceCode(WHITE, ROOK)>>),
                   <<4, PieceCode(BLACK, PAWN)>>), WHITE, 0)

InitShared ==
    /\ TrainersAtRest
    /\ engine = "none"
    /\ difficulty = "MEDIUM"
    /\ caller = NoCaller
    /\ procs = [p \in Procs |-> IF p = 1 THEN "running" ELSE "start"]
    /\ port = 1
    /\ \E b \in Optional(SearchPieces(BLACK)), turn \in BOOLEAN :
          /\ Fits(CornerKings, b)
          /\ LegalPosition(Place(CornerKings, b), turn)
          /\ board = NewBoard(Place(CornerKings, b), turn, 0)
    /\ positions_evaluated = 0
    /\ pc = "idle"
    /\ frames = <<>>
    /\ ret = 0
    /\ result = NoMove
    /\ call = [depth |-> SharedDepth, pre |-> board, start |-> 0, pruned |-> FALSE]
    /\ rootValues = <<>>
    /\ history = <<>>
    /\ parked = [board |-> OtherBoard, pc |-> "idle", frames |-> <<>>, ret |-> 0,
                 result |-> NoMove,
                 call |-> [depth |-> SharedDepth, pre |-> OtherBoard, start |-> 0,
                           pruned |-> FALSE],
                 rootValues |-> <<>>]

\* Both threads call _minimax_root(board, SharedDepth) on self.ai.
NextShared ==
    \/ Switch
    \/ MinimaxRoot
    \/ RootPush
    \/ MinimaxEnter
    \/ MinimaxPush
    \/ MinimaxFold
    \/ MinimaxReturn
    \/ RootFold
    \/ RootReturn

SpecShared == InitShared /\ [][NextShared]_vars

\* --------------------------------------------- the search one move deep
\* Positions searched to depth 1: each side has its king and at most one more
\* piece, a pawn or a queen.
DepthOnePieces(color) == {PieceCode(color, t) : t \in {PAWN, QUEEN}}

InitDepthOne ==
    /\ AppAlone
    /\ \E k \in KingsOnly, w \in Optional(DepthOnePieces(WHITE)),
          b \in Optional(DepthOnePieces(BLACK)), turn \in BOOLEAN :
          /\ Fits(k, w)
          /\ Fits(Place(k, w), b)
          /\ LegalPosition(Place(Place(k, w), b), turn)
          /\ board = NewBoard(Place(Place(k, w), b), turn, 0)
    /\ positions_evaluated = 0
    /\ pc = "idle"
    /\ frames = <<>>
    /\ ret = 0
    /\ result = NoMove
    /\ call = [depth |-> 1, pre |-> board, start |-> 0, pruned |-> FALSE]
    /\ rootValues = <<>>
    /\ history = <<>>

\* _minimax_root(board, 1): every child is a leaf, _minimax never loops
NextDepthOne ==
    \/ MinimaxRoot
    \/ RootPush
    \/ MinimaxEnter
    \/ RootFold
    \/ RootReturn

SpecDepthOne == InitDepthOne /\ [][NextDepthOne]_vars

\* ------------------------------------------------------------ properties
Last == history[Len(history)]
Completed == {history[i] : i \in 1..Len(history)}

\* C1: once a search of depth >= 1 has returned, the board is the board that
\* was passed in: same squares, same side to move, same legal moves, same
\* terminal status, same move stack, with or without cutoffs during the call.
C1_BoardRestored ==
    (pc = "idle" /\ Len(history) >= 1 /\ Last.depth >= 1) =>
        /\ board = Last.pre
        /\ board.turn = Last.pre.turn
        /\ LegalMoveSet(board) = LegalMoveSet(Last.pre)
        /\ IsGameOver(board) = IsGameOver(Last.pre)
        /\ board.stack = Last.pre.stack

\* A depth-3 search that skipped moves on a cutoff has returned a move.
C1_Witness ==
    /\ pc = "idle"
    /\ Len(history) >= 1
    /\ Last.depth = FallbackDepth
    /\ Last.pruned
    /\ Last.move # NoMove
    /\ board = Last.pre

\* C2: a search of depth >= 1 from a position with a legal move returns one of
\* that position's legal moves, also when every root move loses by force.
C2_MoveWheneverLegal ==
    \A h \in Completed :
        (h.depth >= 1 /\ LegalMoveSet(h.pre) # {}) => h.move \in LegalMoveSet(h.pre)

\* Minimax without pruning: the side to move picks the extreme for itself.
SetMax(S) == CHOOSE x \in S : \A y \in S : y <= x
SetMin(S) == CHOOSE x \in S : \A y \in S : x <= y

RECURSIVE ExhaustiveValue(_, _)
ExhaustiveValue(b, depth) ==
    IF depth = 0 \/ IsGameOver(b) THEN Evaluate(b)
    ELSE LET values == {ExhaustiveValue(Push(b, m), depth - 1) : m \in LegalMoveSet(b)}
         IN IF b.turn = WHITE THEN SetMax(values) ELSE SetMin(values)

\* The first move, in the root ordering, that reaches the extreme value.
ExhaustiveRoot(b, depth) ==
    LET order == RootOrder(b, LegalMoves(b))
        values == [i \in 1..Len(order) |-> ExhaustiveValue(Push(b, order[i]), depth - 1)]
        best == IF b.turn = WHITE THEN SetMax({values[i] : i \in 1..Len(order)})
                ELSE SetMin({values[i] : i \in 1..Len(order)})
        first == CHOOSE i \in 1..Len(order) :
                    values[i] = best /\ \A j \in 1..(i - 1) : values[j] # best
    IN [move |-> order[first], value |-> best]

\* C3: the move a search of depth >= 1 returns, and the value it gives that
\* move, are those of minimax without pruning to the same depth.
C3_SameAsExhaustive ==
    \A h \in Completed :
        (h.depth >= 1 /\ h.move # NoMove) =>
            /\ h.move = ExhaustiveRoot(h.pre, h.depth).move
            /\ h.value = ExhaustiveRoot(h.pre, h.depth).value

\* C4: from a position without legal moves (checkmate or stalemate) every
\* search, whatever its depth, returns no move at once: no move is applied, no
\* frame is opened, no node is counted.
C4_NoLegalMoves ==
    (IsCheckmate(call.pre) \/ IsStalemate(call.pre)) =>
        /\ pc = "idle"
        /\ frames = <<>>
        /\ board = call.pre
        /\ positions_evaluated = 0
        /\ \A h \in Completed : h.move = NoMove /\ h.visited = 0

\* A depth-0 search of a checkmate position has returned.
C4_Witness ==
    /\ Len(history) >= 1
    /\ IsCheckmate(Last.pre)
    /\ Last.depth = 0
    /\ result = NoMove
    /\ board = Last.pre

\* C5: a search of depth <= 0 from a position with legal moves applies no
\* move, opens no frame below the root and returns no move.
C5_DepthZeroNoSearch ==
    (call.depth <= 0 /\ LegalMoveSet(call.pre) # {}) =>
        /\ board = call.pre
        /\ Len(frames) <= 1
        /\ \A h \in Completed : h.move = NoMove

\* C6: two completed searches of the same position to the same depth returned
\* the same move and left the same evaluation count.
C6_Deterministic ==
    \A g, h \in Completed :
        (g.depth = h.depth /\ g.pre = h.pre) => (g.move = h.move /\ g.count = h.count)

\* C7: the evaluation of a checkmate position is minus infinity when White
\* is to move (and mated) and plus infinity when Black is, whatever the
\* material on the board.
C7_CheckmateValue ==
    (pc = "evaluated" /\ IsCheckmate(board)) =>
        ret = (IF board.turn = WHITE THEN NegInf ELSE PosInf)

\* A mated Black who is ahead in material has been evaluated.
C7_Witness ==
    /\ pc = "evaluated"
    /\ IsCheckmate(board)
    /\ board.turn = BLACK
    /\ MaterialFrom(board.sq, 1) < 0

\* C8: the evaluation of a stalemate position, and of a position with
\* insufficient material, is exactly 0 whatever the material balance.
C8_DrawValue ==
    (pc = "evaluated" /\ (IsStalemate(board) \/ IsInsufficientMaterial(board))) => ret = 0

\* A stalemate with unequal material has been evaluated.
C8_Witness ==
    /\ pc = "evaluated"
    /\ IsStalemate(board)
    /\ ~IsInsufficientMaterial(board)
    /\ MaterialFrom(board.sq, 1) # 0

\* Number of squares holding piece p.
Count(sq, p) == Cardinality({s \in Squares : sq[s] = p})

\* White's pieces minus Black's, each kind at its fixed value.
MaterialBalance(sq) ==
      100 * (Count(sq, 1) - Count(sq, -1))
    + 320 * (Count(sq, 2) - Count(sq, -2))
    + 330 * (Count(sq, 3) - Count(sq, -3))
    + 500 * (Count(sq, 4) - Count(sq, -4))
    + 900 * (Count(sq, 5) - Count(sq, -5))
    + 20000 * (Count(sq, 6) - Count(sq, -6))

\* C9: the evaluation of a position that is not checkmate, stalemate or
\* insufficient material is the material balance and nothing else: a sum that
\* reads the squares alone, not the side to move.
C9_MaterialValue ==
    (/\ pc = "evaluated"
     /\ ~IsCheckmate(board)
     /\ ~IsStalemate(board)
     /\ ~IsInsufficientMaterial(board)) => ret = MaterialBalance(board.sq)

\* A position with pieces of both sides and unequal material has been evaluated.
C9_Witness ==
    /\ pc = "evaluated"
    /\ ~IsCheckmate(board)
    /\ ~IsStalemate(board)
    /\ ~IsInsufficientMaterial(board)
    /\ \E s, t \in Squares : PieceType(board.sq[s]) \notin {0, KING} /\ board.sq[s] > 0
                             /\ PieceType(board.sq[t]) \notin {0, KING} /\ board.sq[t] < 0
    /\ ret \notin {0, NegInf, PosInf}

\* Position of the returned move in the root ordering.
IndexOf(h) == CHOOSE i \in 1..Len(h.order) : h.order[i] = h.move

\* C10: the value of the returned move is the largest of the root values when
\* White is to move at the root, the smallest when Black is, and no move
\* earlier in the root ordering has that value.
C10_ExtremeAndFirst ==
    \A h \in Completed :
        h.move # NoMove =>
            /\ Len(h.values) = Len(h.order)
            /\ h.move \in {h.order[i] : i \in 1..Len(h.order)}
            /\ h.values[IndexOf(h)] = h.value
            /\ \A j \in 1..Len(h.values) :
                  IF h.pre.turn = WHITE THEN h.values[j] <= h.value
                  ELSE h.values[j] >= h.value
            /\ \A j \in 1..(IndexOf(h) - 1) : h.values[j] # h.value

\* A search has returned a move that a later root move ties with.
C10_Witness ==
    \E h \in Completed :
        /\ h.move # NoMove
        /\ h.depth >= 1
        /\ \E j \in (IndexOf(h) + 1)..Len(h.values) : h.values[j] = h.value

\* Moves of position b after which the opponent is checkmated.
MatingMoves(b) == {m \in LegalMoveSet(b) : IsCheckmate(Push(b, m))}

\* C11: a depth-2 search from a position in which the side to move, White or
\* Black, can give checkmate returns a move that gives checkmate, and the
\* evaluation of the position after it is the extreme value: plus infinity
\* when White has mated, minus infinity when Black has.
C11_MateInOne ==
    \A h \in Completed :
        (h.depth = 2 /\ MatingMoves(h.pre) # {}) =>
            /\ h.move \in MatingMoves(h.pre)
            /\ Evaluate(Push(h.pre, h.move)) =
                  (IF h.pre.turn = WHITE THEN PosInf ELSE NegInf)

\* A depth-2 search has returned for Black from a position where some of
\* Black's moves mate and some do not.
C11_Witness ==
    \E h \in Completed :
        /\ h.depth = 2
        /\ h.pre.turn = BLACK
        /\ MatingMoves(h.pre) # {}
        /\ MatingMoves(h.pre) # LegalMoveSet(h.pre)
        /\ h.value = NegInf

\* Static evaluation of the position after move m.
After(b, m) == Evaluate(Push(b, m))

\* Move m takes a queen that nothing defends.
TakesLooseQueen(b, m) ==
    /\ PieceType(b.sq[m.to]) = QUEEN
    /\ ~IsAttackedBy(ApplyMove(b.sq, m), ~b.turn, m.to)

\* C12: a depth-1 search returns a legal move after which the static
\* evaluation is the highest any root move reaches when White is to move, the
\* lowest when Black is; a move that takes an undefended queen and is strictly
\* better than every other root move is the move returned.
C12_DepthOneBest ==
    \A h \in Completed :
        (h.depth = 1 /\ LegalMoveSet(h.pre) # {}) =>
            /\ h.move \in LegalMoveSet(h.pre)
            /\ \A m \in LegalMoveSet(h.pre) :
                  IF h.pre.turn = WHITE THEN After(h.pre, m) <= After(h.pre, h.move)
                  ELSE After(h.pre, m) >= After(h.pre, h.move)
            /\ \A m \in LegalMoveSet(h.pre) :
                  (/\ TakesLooseQueen(h.pre, m)
                   /\ \A n \in LegalMoveSet(h.pre) \ {m} :
                         IF h.pre.turn = WHITE THEN After(h.pre, n) < After(h.pre, m)
                         ELSE After(h.pre, n) > After(h.pre, m)) => h.move = m

\* A depth-1 search has returned the capture of an undefended queen, chosen
\* over other moves that leave the queen on the board.
C12_Witness ==
    \E h \in Completed :
        /\ h.depth = 1
        /\ h.move # NoMove
        /\ TakesLooseQueen(h.pre, h.move)
        /\ Cardinality(LegalMoveSet(h.pre)) >= 3
        /\ \A n \in LegalMoveSet(h.pre) \ {h.move} : After(h.pre, n) # After(h.pre, h.move)

\* C13: after every completed search, whichever entry point started it, the
\* evaluation counter equals the number of nodes visited during that search
\* alone.
C13_CountOfThisCall ==
    \A h \in Completed : h.count = h.visited

\* C14: while a search runs, the step that enters a node adds exactly one to
\* the evaluation counter and no other step changes it, so the counter never
\* decreases; after a search of depth >= 1 from a position with a legal move
\* the counter is greater than zero.
C14_CounterGrows ==
    /\ [][pc # "idle" =>
            positions_evaluated' = positions_evaluated + (IF pc = "enter" THEN 1 ELSE 0)]_vars
    /\ [](\A h \in Completed :
            (h.depth >= 1 /\ LegalMoveSet(h.pre) # {}) => (h.count > 0 /\ h.visited > 0))

\* A depth-3 search has returned after visiting nodes below the root's children.
C14_Witness ==
    \E h \in Completed :
        /\ h.depth = FallbackDepth
        /\ h.move # NoMove
        /\ h.visited > Len(h.order)
        /\ positions_evaluated >= h.visited

\* One search run from start to end with nothing else going on: the value of
\* a node and the number of nodes entered at and below it.
RECURSIVE AloneNode(_, _, _, _, _)
RECURSIVE AloneLoop(_, _, _, _, _, _, _, _, _)
AloneNode(b, depth, alpha, beta, maximizing) ==
    IF BaseCase(b, depth) THEN [value |-> Evaluate(b), nodes |-> 1]
    ELSE AloneLoop(b, depth, alpha, beta, maximizing, LegalMoves(b), 1,
                   IF maximizing THEN NegInf ELSE PosInf, 1)

AloneLoop(b, depth, alpha, beta, maximizing, moves, i, best, nodes) ==
    IF i > Len(moves) THEN [value |-> best, nodes |-> nodes]
    ELSE LET child == AloneNode(Push(b, moves[i]), depth - 1, alpha, beta, ~maximizing)
             best2 == IF maximizing THEN Max(best, child.value) ELSE Min(best, child.value)
             alpha2 == IF maximizing THEN Max(alpha, child.value) ELSE alpha
             beta2 == IF maximizing THEN beta ELSE Min(beta, child.value)
         IN IF beta2 <= alpha2 THEN [value |-> best2, nodes |-> nodes + child.nodes]
            ELSE AloneLoop(b, depth, alpha2, beta2, maximizing, moves, i + 1, best2,
                           nodes + child.nodes)

\* The move such a search returns and the count it leaves, started from 0.
RECURSIVE AloneRootLoop(_, _, _, _, _, _, _)
AloneRootLoop(b, depth, order, i, best, bestMove, nodes) ==
    IF i > Len(order) THEN [move |-> bestMove, count |-> nodes]
    ELSE LET child == AloneNode(Push(b, order[i]), depth - 1, NegInf, PosInf,
                                ~Push(b, order[i]).turn)
             better == IF b.turn = WHITE THEN child.value > best ELSE child.value < best
         IN AloneRootLoop(b, depth, order, i + 1,
                          IF better THEN child.value ELSE best,
                          IF better THEN order[i] ELSE bestMove,
                          nodes + child.nodes)

Alone(b, depth) ==
    AloneRootLoop(b, depth, RootOrder(b, LegalMoves(b)), 1,
                  IF b.turn = WHITE THEN NegInf ELSE PosInf, NoMove, 0)

\* C15: of two searches that interleave on the one engine object, each on a
\* board of its own, each returns the move it would return if it ran alone,
\* and the evaluation counter grows during it by the count it would report if
\* it ran alone.
C15_NoInterference ==
    \A h \in Completed :
        h.depth >= 1 =>
            /\ h.move = Alone(h.pre, h.depth).move
            /\ h.visited = Alone(h.pre, h.depth).count

\* ------------------------------------------- the callers of the search
\* ChessLearner.__init__: ChessAI(Difficulty.MEDIUM) with Stockfish found and
\* started, or not; every caller asks for depth 3.
InitCallers ==
    /\ TrainersAtRest
    /\ engine \in {"none", "loaded"}
    /\ difficulty = "MEDIUM"
    /\ caller = NoCaller
    /\ parked = NoThread
    /\ procs = [p \in Procs |-> IF p = 1 THEN "running" ELSE "start"]
    /\ port = 1
    /\ \E b \in Optional(SearchPieces(BLACK)), turn \in BOOLEAN :
          /\ Fits(CornerKings, b)
          /\ LegalPosition(Place(CornerKings, b), turn)
          /\ board = NewBoard(Place(CornerKings, b), turn, 0)
    /\ positions_evaluated = 0
    /\ pc = "idle"
    /\ frames = <<>>
    /\ ret = 0
    /\ result = NoMove
    /\ call = [depth |-> FallbackDepth, pre |-> board, start |-> 0, pruned |-> FALSE]
    /\ rootValues = <<>>
    /\ history = <<>>

\* What a call answered without the search leaves for the record.
Answer(by, b, move) == [by |-> by, pre |-> b, move |-> move]

\* A move that did not come from the search: the engine's, or a random one.
AnswerWithoutSearch(by, reset) ==
    /\ pc = "idle"
    /\ Len(history) < MaxCalls
    /\ positions_evaluated' = IF reset THEN 0 ELSE positions_evaluated
    /\ \E m \in (IF LegalMoveSet(board) = {} THEN {NoMove} ELSE LegalMoveSet(board)) :
          /\ result' = m
          /\ history' = Append(history, Answer(by, board, m))
    /\ UNCHANGED <<board, pc, frames, ret, call, rootValues>>

CalledBy(entry, failed) ==
    /\ caller' = [entry |-> entry, failed |-> failed]
    /\ UNCHANGED <<engine, difficulty, parked, procs, port, trainVars>>

\* set_difficulty, lines 73-75 (main.py line 387)
SetDifficulty ==
    /\ pc = "idle"
    /\ \E d \in Difficulties \ {difficulty} : difficulty' = d
    /\ UNCHANGED <<board, positions_evaluated, pc, frames, ret, result, call, rootValues,
                   history, engine, caller, parked, procs, port, trainVars>>

\* get_best_move, lines 83-89, _get_stockfish_move, lines 102-117: engine.play
\* answers
BestMoveByEngine ==
    /\ engine = "loaded"
    /\ difficulty # "EASY"
    /\ LegalMoveSet(board) # {}
    /\ AnswerWithoutSearch("engine", TRUE)
    /\ CalledBy("get_best_move", FALSE)

\* _get_stockfish_move, lines 118-120: engine.play raises, _get_minimax_move
BestMoveEngineFails ==
    /\ engine = "loaded"
    /\ difficulty # "EASY"
    /\ StartSearch(TRUE)
    /\ CalledBy("get_best_move", TRUE)

\* get_best_move, lines 90-91, _get_easy_move, lines 122-133
BestMoveEasy ==
    /\ difficulty = "EASY"
    /\ AnswerWithoutSearch("random", TRUE)
    /\ CalledBy("get_best_move", FALSE)

\* get_best_move, lines 92-94: no engine, _get_minimax_move
BestMoveFallback ==
    /\ engine = "none"
    /\ difficulty # "EASY"
    /\ StartSearch(TRUE)
    /\ CalledBy("get_best_move", FALSE)

\* get_hint, lines 246-263: engine.analyse answers with a principal variation
HintByEngine ==
    /\ engine = "loaded"
    /\ LegalMoveSet(board) # {}
    /\ AnswerWithoutSearch("engine", FALSE)
    /\ CalledBy("get_hint", FALSE)

\* get_hint, lines 264-268: engine.analyse raises or gives no move, fallback
HintEngineFails ==
    /\ engine = "loaded"
    /\ StartSearch(FALSE)
    /\ CalledBy("get_hint", TRUE)

\* get_hint, lines 246 and 267-268: no engine, fallback
HintFallback ==
    /\ engine = "none"
    /\ StartSearch(FALSE)
    /\ CalledBy("get_hint", FALSE)

\* GameReviewer.analyze_game, review.py line 43: the search, engine or not
ReviewSearch ==
    /\ StartSearch(FALSE)
    /\ CalledBy("analyze_game", FALSE)

NextCallers ==
    \/ SetDifficulty
    \/ BestMoveByEngine
    \/ BestMoveEngineFails
    \/ BestMoveEasy
    \/ BestMoveFallback
    \/ HintByEngine
    \/ HintEngineFails
    \/ HintFallback
    \/ ReviewSearch
    \/ RootPush
    \/ MinimaxEnter
    \/ MinimaxPush
    \/ MinimaxFold
    \/ MinimaxReturn
    \/ RootFold
    \/ RootReturn

SpecCallers == InitCallers /\ [][NextCallers]_vars

\* ------------------------------------------- the single-instance lock
\* The lock is the TCP port LOCK_PORT on 127.0.0.1: port is the process whose
\* socket is bound to it, FreePort when no socket is.
FreePort == 0

\* a bind that succeeds whoever holds the port
BindAlways(holder) == TRUE

\* lock_socket.bind(('127.0.0.1', LOCK_PORT)) raises socket.error when the
\* address is in use
BindSucceeds(holder) == holder = FreePort

\* Processes holding a socket bound to the port.
Holding == {"bound", "listening", "running"}

Holders == {p \in Procs : procs[p] \in Holding}

\* Nobody has started main.py yet; the rest of the program is at rest.
InitLock ==
    /\ TrainersAtRest
    /\ procs = [p \in Procs |-> "start"]
    /\ port = FreePort
    /\ engine = "none"
    /\ difficulty = "MEDIUM"
    /\ caller = NoCaller
    /\ parked = NoThread
    /\ board = NewBoard(CornerKings, WHITE, 0)
    /\ positions_evaluated = 0
    /\ pc = "idle"
    /\ frames = <<>>
    /\ ret = 0
    /\ result = NoMove
    /\ call = [depth |-> FallbackDepth, pre |-> board, start |-> 0, pruned |-> FALSE]
    /\ rootValues = <<>>
    /\ history = <<>>

ProcStep(p, to, holder) ==
    /\ procs' = [procs EXCEPT ![p] = to]
    /\ port' = holder
    /\ UNCHANGED <<board, positions_evaluated, pc, frames, ret, result, call, rootValues,
                   history, engine, difficulty, caller, parked, trainVars>>

\* acquire_lock, line 15: socket.socket(...)
CreateSocket(p) ==
    /\ procs[p] = "start"
    /\ ProcStep(p, "socket", port)

\* acquire_lock, line 16: bind succeeds
Bind(p) ==
    /\ BindSucceeds(port)
    /\ procs[p] = "socket"
    /\ ProcStep(p, "bound", p)

\* acquire_lock, lines 16 and 19-20: bind raises, return None
BindRefused(p) ==
    /\ ~BindSucceeds(port)
    /\ procs[p] = "socket"
    /\ ProcStep(p, "refused", port)

\* acquire_lock, lines 17-18: listen(1), return lock_socket
Listen(p) ==
    /\ procs[p] = "bound"
    /\ ProcStep(p, "listening", port)

\* __main__, lines 1143-1145: app = ChessLearner(); app.run()
RunApp(p) ==
    /\ procs[p] = "listening"
    /\ ProcStep(p, "running", port)

\* __main__, lines 1146-1147: finally: lock_socket.close()
CloseLock(p) ==
    /\ procs[p] = "running"
    /\ ProcStep(p, "closed", FreePort)

\* the holder's process ends
ExitHolder(p) ==
    /\ procs[p] = "closed"
    /\ ProcStep(p, "exited", port)

\* __main__, lines 1124-1140: "Chess Learner is already running!"
ShowNotice(p) ==
    /\ procs[p] = "refused"
    /\ ProcStep(p, "notice", port)

\* __main__, line 1141: sys.exit(1)
ExitRefused(p) ==
    /\ procs[p] = "notice"
    /\ ProcStep(p, "exited", port)

NextLock ==
    \E p \in Procs :
        \/ CreateSocket(p)
        \/ Bind(p)
        \/ BindRefused(p)
        \/ Listen(p)
        \/ RunApp(p)
        \/ CloseLock(p)
        \/ ExitHolder(p)
        \/ ShowNotice(p)
        \/ ExitRefused(p)

SpecLock == InitLock /\ [][NextLock]_vars

\* ------------------------------------------- a game against the computer
\* Half-moves played in one game, and games started, while the model follows.
MaxPlies == 4
MaxGames == 3

\* chess.Board(): the array every game starts from.
StartingArray ==
    [s \in Squares |->
        IF s = 1 THEN PieceCode(WHITE, ROOK)
        ELSE IF s = 2 THEN PieceCode(BLACK, PAWN)
        ELSE IF s = 3 THEN PieceCode(BLACK, KING)
        ELSE IF s = NumSquares - 1 THEN PieceCode(WHITE, KING)
        ELSE Empty]

\* A game, as ChessGame holds it: the board with the two histories.
FreshGame ==
    [board |-> NewBoard(StartingArray, WHITE, 0),
     move_history |-> <<>>,
     position_history |-> <<Fen(NewBoard(StartingArray, WHITE, 0))>>]

CurrentGame ==
    [board |-> board, move_history |-> game.move_history,
     position_history |-> game.position_history]

\* ChessGame.make_move, game.py lines 25-32
GameMakeMove(g, m) ==
    IF m \in LegalMoveSet(g.board)
    THEN [board |-> Push(g.board, m),
          move_history |-> Append(g.move_history, m),
          position_history |-> Append(g.position_history, Fen(Push(g.board, m)))]
    ELSE g

\* board.pop() raises IndexError on an empty move stack
UndoRaises(g) == g.move_history # <<>> /\ g.board.stack = <<>>

\* ChessGame.undo_move, game.py lines 50-57
GameUndoMove(g) ==
    IF g.move_history = <<>> \/ UndoRaises(g) THEN g
    ELSE [board |-> Pop(g.board),
          move_history |-> SubSeq(g.move_history, 1, Len(g.move_history) - 1),
          position_history |-> SubSeq(g.position_history, 1, Len(g.position_history) - 1)]

\* The application has been started and shows its menu.
InitPlay ==
    /\ engine \in {"none", "loaded"}
    /\ difficulty = "MEDIUM"
    /\ caller = NoCaller
    /\ parked = NoThread
    /\ procs = [p \in Procs |-> IF p = 1 THEN "running" ELSE "start"]
    /\ port = 1
    /\ mode = "MENU"
    /\ board = FreshGame.board
    /\ game = [move_history |-> <<>>, position_history |-> FreshGame.position_history]
    /\ ui = [player_color |-> WHITE, game_over |-> FALSE, ai_thinking |-> FALSE,
             paused_game |-> NoPaused, saved_game_moves |-> <<>>,
             game_id |-> 0, playing |-> 0, error |-> FALSE]
    /\ puzzles = [current_puzzle |-> 0, current_move_index |-> 0, solved_puzzles |-> {},
                  practice_board |-> NoBoard]
    /\ endgames = [current_endgame |-> 0, practice_board |-> NoBoard, moves_made |-> 0]
    /\ openings = [current_opening |-> 0, current_move_index |-> 0,
                   practice_board |-> NoBoard, user_color |-> WHITE]
    /\ positions_evaluated = 0
    /\ pc = "idle"
    /\ frames = <<>>
    /\ ret = 0
    /\ result = NoMove
    /\ call = [depth |-> FallbackDepth, pre |-> board, start |-> 0, pruned |-> FALSE]
    /\ rootValues = <<>>
    /\ history = <<>>

\* What a step of the game leaves alone.
PlayFrame ==
    UNCHANGED <<pc, frames, ret, call, rootValues, history, engine, difficulty, caller,
                parked, procs, port, puzzles, endgames, openings>>

SetGame(g) ==
    /\ board' = g.board
    /\ game' = [move_history |-> g.move_history, position_history |-> g.position_history]

\* _start_game, lines 873-896
StartGame(u) ==
    /\ u.game_id < MaxGames
    /\ mode' = "PLAY_VS_AI"
    /\ SetGame(FreshGame)
    /\ ui' = [u EXCEPT !.saved_game_moves =
                           IF game.move_history # <<>> THEN game.move_history ELSE @,
                       !.player_color = WHITE,
                       !.game_over = FALSE,
                       !.ai_thinking = FALSE,
                       !.error = FALSE,
                       !.game_id = @ + 1,
                       !.playing = u.game_id + 1]
    /\ UNCHANGED <<positions_evaluated, result>>
    /\ PlayFrame

\* _handle_menu_click, lines 293-296: Play vs AI
MenuPlay ==
    /\ mode = "MENU"
    /\ StartGame([ui EXCEPT !.paused_game = NoPaused])

\* _handle_game_click, line 358: New Game
GameNew ==
    /\ mode = "PLAY_VS_AI"
    /\ ~ui.ai_thinking
    /\ StartGame(ui)

\* _handle_menu_click, lines 297-299, _resume_game, lines 848-871
MenuResume ==
    /\ mode = "MENU"
    /\ ui.paused_game # NoPaused
    /\ mode' = "PLAY_VS_AI"
    /\ board' = BoardFromFen(ui.paused_game.fen)
    /\ game' = [game EXCEPT !.move_history = ui.paused_game.moves]
    /\ ui' = [ui EXCEPT !.player_color = ui.paused_game.player_color,
                        !.game_over = FALSE,
                        !.ai_thinking = (board'.turn # ui.paused_game.player_color),
                        !.error = FALSE,
                        !.playing = ui.paused_game.id]
    /\ UNCHANGED <<positions_evaluated, result>>
    /\ PlayFrame

\* _handle_game_click, lines 359-372: Menu
GameMenu ==
    /\ mode = "PLAY_VS_AI"
    /\ ~ui.ai_thinking
    /\ mode' = "MENU"
    /\ ui' = [ui EXCEPT !.saved_game_moves =
                            IF game.move_history # <<>> THEN game.move_history ELSE @,
                        !.paused_game =
                            IF ~ui.game_over /\ game.move_history # <<>>
                            THEN [fen |-> Fen(board), moves |-> game.move_history,
                                  player_color |-> ui.player_color, id |-> ui.playing]
                            ELSE @]
    /\ UNCHANGED <<board, game, positions_evaluated, result>>
    /\ PlayFrame

\* _handle_game_click, lines 392-394, _handle_board_click, _make_move, lines
\* 512-534: the player moves a piece
PlayerMove ==
    /\ mode = "PLAY_VS_AI"
    /\ ~ui.ai_thinking
    /\ ~ui.game_over
    /\ board.turn = ui.player_color
    /\ Len(game.move_history) < MaxPlies
    /\ \E m \in LegalMoveSet(board) :
          /\ SetGame(GameMakeMove(CurrentGame, m))
          /\ IF IsGameOver(board')
             THEN ui' = [ui EXCEPT !.game_over = TRUE,
                                   !.saved_game_moves = game'.move_history,
                                   !.paused_game = NoPaused]
             ELSE ui' = [ui EXCEPT !.ai_thinking = TRUE]
    /\ UNCHANGED <<mode, positions_evaluated, result>>
    /\ PlayFrame

\* get_best_move, ai.py lines 81-94, run to its end on board b: the moves it
\* can return, each with the count it leaves.
BestMoves(b) ==
    LET any == IF LegalMoveSet(b) = {} THEN {NoMove} ELSE LegalMoveSet(b)
        search == Alone(b, FallbackDepth)
    IN IF difficulty = "EASY" THEN {[move |-> m, count |-> 0] : m \in any}
       ELSE IF engine = "loaded"
       THEN {[move |-> m, count |-> 0] : m \in any} \cup {search}
       ELSE {search}

\* _update, lines 565-586: the computer's turn
Update ==
    /\ mode = "PLAY_VS_AI"
    /\ ui.ai_thinking
    /\ IF ~ui.game_over /\ board.turn # ui.player_color
       THEN \E a \in BestMoves(board) :
               /\ result' = a.move
               /\ positions_evaluated' = a.count
               /\ IF a.move # NoMove
                  THEN /\ SetGame(GameMakeMove(CurrentGame, a.move))
                       /\ IF IsGameOver(board')
                          THEN ui' = [ui EXCEPT !.ai_thinking = FALSE,
                                                !.game_over = TRUE,
                                                !.saved_game_moves = game'.move_history,
                                                !.paused_game = NoPaused]
                          ELSE ui' = [ui EXCEPT !.ai_thinking = FALSE]
                  ELSE /\ ui' = [ui EXCEPT !.ai_thinking = FALSE]
                       /\ UNCHANGED <<board, game>>
       ELSE /\ ui' = [ui EXCEPT !.ai_thinking = FALSE]
            /\ UNCHANGED <<board, game, result, positions_evaluated>>
    /\ UNCHANGED mode
    /\ PlayFrame

\* _handle_game_click, line 356, _undo_move, lines 999-1018: the computer's
\* move is taken back, then the player's; an exception leaves the handler and
\* is reported by run, lines 226-229
GameUndo ==
    /\ mode = "PLAY_VS_AI"
    /\ ~ui.ai_thinking
    /\ LET first == IF game.move_history # <<>> /\ board.turn = ui.player_color
                    THEN GameUndoMove(CurrentGame) ELSE CurrentGame
           raised == \/ (game.move_history # <<>> /\ board.turn = ui.player_color
                           /\ UndoRaises(CurrentGame))
                     \/ UndoRaises(first)
       IN IF raised
          THEN /\ SetGame(first)
               /\ ui' = [ui EXCEPT !.error = TRUE]
          ELSE /\ SetGame(GameUndoMove(first))
               /\ ui' = [ui EXCEPT !.game_over = FALSE, !.error = FALSE]
    /\ UNCHANGED mode
    /\ UNCHANGED <<positions_evaluated, result>>
    /\ PlayFrame

\* _handle_game_click, lines 384-390: a difficulty button
ChangeDifficulty ==
    /\ mode = "PLAY_VS_AI"
    /\ ~ui.ai_thinking
    /\ SetDifficulty

NextPlay ==
    \/ MenuPlay
    \/ MenuResume
    \/ GameNew
    \/ GameMenu
    \/ PlayerMove
    \/ Update
    \/ GameUndo
    \/ ChangeDifficulty

\* The frame loop runs _update after the events of every frame.
SpecPlay == InitPlay /\ [][NextPlay]_vars /\ WF_vars(Update)

\* ------------------------------------------------------ the puzzle trainer
\* move.uci() and chess.Move.from_uci: the two squares of a move, as text.
Uci(m) == <<m.from, m.to>>
FromUci(u) == [from |-> u[1], to |-> u[2]]

\* chess.Board(fen): the array of a position, from its pieces and their squares.
Setup(S) ==
    [s \in Squares |->
        IF \E pr \in S : pr[1] = s THEN (CHOOSE pr \in S : pr[1] = s)[2] ELSE Empty]

\* BUILTIN_PUZZLES, puzzles.py lines 22-98, on the one-rank board: a mate in
\* one, a single move after which the game goes on (as in fork_01), and a
\* solution of three moves with the opponent's reply in it (as in m2_03).
BUILTIN_PUZZLES ==
    LET K == PieceCode(WHITE, KING)
        R == PieceCode(WHITE, ROOK)
        k == PieceCode(BLACK, KING)
        p == PieceCode(BLACK, PAWN)
    IN <<[id |-> 1,
          fen |-> Fen(NewBoard(Setup({<<1, k>>, <<3, p>>, <<4, R>>, <<6, K>>}), WHITE, 0)),
          solution |-> <<Uci([from |-> 4, to |-> 3])>>],
         [id |-> 2,
          fen |-> Fen(NewBoard(Setup({<<1, k>>, <<3, p>>, <<5, K>>, <<6, R>>}), WHITE, 0)),
          solution |-> <<Uci([from |-> 5, to |-> 4])>>],
         [id |-> 3,
          fen |-> Fen(NewBoard(Setup({<<2, k>>, <<3, p>>, <<5, R>>, <<6, K>>}), WHITE, 0)),
          solution |-> <<Uci([from |-> 5, to |-> 4]), Uci([from |-> 2, to |-> 1]),
                         Uci([from |-> 4, to |-> 3])>>]>>

PuzzleIds == {BUILTIN_PUZZLES[i].id : i \in DOMAIN BUILTIN_PUZZLES}
PuzzleOf(id) == BUILTIN_PUZZLES[CHOOSE i \in DOMAIN BUILTIN_PUZZLES : BUILTIN_PUZZLES[i].id = id]

\* PuzzleManager.start_puzzle, puzzles.py lines 149-154
StartPuzzleOn(pz, p) ==
    [pz EXCEPT !.current_puzzle = p.id,
               !.current_move_index = 0,
               !.practice_board = BoardFromFen(p.fen)]

\* check_move, line 161: self.current_puzzle.solution[self.current_move_index]
\* raises IndexError when the index is not below the length of the list.
CheckMoveRaises(pz) ==
    /\ pz.current_puzzle # 0
    /\ pz.current_move_index >= Len(PuzzleOf(pz.current_puzzle).solution)

MatchesAlways(m, expected_uci) == TRUE

\* check_move, line 163: the move is the expected one
Matches(m, expected_uci) == Uci(m) = expected_uci

\* PuzzleManager.check_move, puzzles.py lines 156-189, when it does not raise:
\* the manager afterwards, and whether the move was correct.
CheckMove(pz, m) ==
    IF pz.current_puzzle = 0 THEN [pz |-> pz, correct |-> FALSE]
    ELSE
    LET solution == PuzzleOf(pz.current_puzzle).solution
        id == pz.current_puzzle
        i1 == pz.current_move_index + 1
        b1 == Push(pz.practice_board, m)
    IN IF ~Matches(m, solution[pz.current_move_index + 1])
       THEN [pz |-> pz, correct |-> FALSE]
       ELSE IF i1 >= Len(solution)
       THEN [pz |-> [pz EXCEPT !.current_move_index = i1,
                               !.practice_board = b1,
                               !.solved_puzzles = @ \cup {id}],
             correct |-> TRUE]
       ELSE [pz |-> [pz EXCEPT !.current_move_index = i1 + 1,
                               !.practice_board = Push(b1, FromUci(solution[i1 + 1])),
                               !.solved_puzzles =
                                   IF i1 + 1 >= Len(solution) THEN @ \cup {id} ELSE @],
             correct |-> TRUE]

\* What a step of a trainer leaves alone.
TrainFrame ==
    UNCHANGED <<positions_evaluated, pc, frames, ret, result, call, rootValues, history,
                engine, difficulty, caller, parked, procs, port, game>>

\* _handle_menu_click, lines 319-325, _start_puzzle, lines 911-921: one of the
\* unsolved puzzles listed by _show_puzzles is chosen
StartPuzzle(p) ==
    /\ mode = "MENU"
    /\ p.id \notin puzzles.solved_puzzles
    /\ mode' = "PUZZLE"
    /\ puzzles' = StartPuzzleOn(puzzles, p)
    /\ board' = puzzles'.practice_board
    /\ ui' = [ui EXCEPT !.error = FALSE]
    /\ UNCHANGED <<endgames, openings>>
    /\ TrainFrame

\* _handle_puzzle_click, lines 396-415, _handle_board_click, _make_move, lines
\* 536-543: a legal move of the side to move on the board is checked
PuzzleMove(m) ==
    /\ mode = "PUZZLE"
    /\ m \in LegalMoveSet(board)
    /\ IF CheckMoveRaises(puzzles)
       THEN /\ ui' = [ui EXCEPT !.error = TRUE]
            /\ UNCHANGED <<puzzles, board>>
       ELSE /\ puzzles' = CheckMove(puzzles, m).pz
            /\ board' = IF CheckMove(puzzles, m).correct /\ puzzles'.practice_board # NoBoard
                        THEN puzzles'.practice_board ELSE board
            /\ ui' = [ui EXCEPT !.error = FALSE]
    /\ UNCHANGED <<mode, endgames, openings>>
    /\ TrainFrame

\* _handle_puzzle_click, lines 404-410: Skip, New puzzle, Menu
PuzzleLeave ==
    /\ mode = "PUZZLE"
    /\ mode' = "MENU"
    /\ UNCHANGED <<board, ui, puzzles, endgames, openings>>
    /\ TrainFrame

\* ------------------------------------------------------ the opening trainer
\* board.san(move): the piece, a capture mark, the target square, and the
\* square of origin when another piece of the kind could go there as well.
San(b, m) ==
    [piece |-> PieceType(b.sq[m.from]),
     capture |-> IsCapture(b, m),
     to |-> m.to,
     from |-> IF \E o \in LegalMoveSet(b) :
                    o # m /\ o.to = m.to /\ b.sq[o.from] = b.sq[m.from]
              THEN m.from ELSE 0]

\* board.parse_san(san): the legal move written so; the library raises an
\* error (here: no move) when there is none.
ParseSan(b, san) ==
    IF \E m \in LegalMoveSet(b) : San(b, m) = san
    THEN CHOOSE m \in LegalMoveSet(b) : San(b, m) = san
    ELSE NoMove

SanText(piece, capture, to) == [piece |-> piece, capture |-> capture, to |-> to, from |-> 0]

\* OPENINGS, openings.py lines 18-157: lines of moves in SAN from the starting
\* array, one of odd length (as the Italian Game) and one of even length (as
\* the Giuoco Piano).
OPENINGS ==
    <<[name |-> 1,
       moves |-> <<SanText(KING, FALSE, NumSquares), SanText(KING, FALSE, 4),
                   SanText(ROOK, TRUE, 2)>>],
      [name |-> 2,
       moves |-> <<SanText(ROOK, TRUE, 2), SanText(KING, TRUE, 2),
                   SanText(KING, FALSE, NumSquares - 2), SanText(KING, FALSE, 1)>>]>>

OpeningOf(name) == OPENINGS[CHOOSE i \in DOMAIN OPENINGS : OPENINGS[i].name = name]

\* OpeningTrainer.start_practice, openings.py lines 182-195
StartPractice(o, play_as_white) ==
    LET fresh == NewBoard(StartingArray, WHITE, 0)
    IN IF ~play_as_white /\ 0 < Len(o.moves)
       THEN [current_opening |-> o.name, current_move_index |-> 1,
             practice_board |-> Push(fresh, ParseSan(fresh, o.moves[1])),
             user_color |-> play_as_white]
       ELSE [current_opening |-> o.name, current_move_index |-> 0,
             practice_board |-> fresh, user_color |-> play_as_white]

IsExpectedAlways(move, expected_move) == TRUE

\* check_move, line 208: the move is the one the line expects
IsExpected(move, expected_move) == move = expected_move

\* OpeningTrainer.check_move, openings.py lines 197-226: the trainer
\* afterwards, whether the move was accepted, and whether parse_san raised.
OpeningCheckMove(op, move) ==
    IF op.current_opening = 0 \/ op.practice_board = NoBoard
    THEN [op |-> op, correct |-> FALSE, raised |-> FALSE]
    ELSE
    LET moves == OpeningOf(op.current_opening).moves
        i == op.current_move_index
        b1 == Push(op.practice_board, move)
        pushed == [op EXCEPT !.current_move_index = i + 1, !.practice_board = b1]
    IN IF i >= Len(moves) THEN [op |-> op, correct |-> TRUE, raised |-> FALSE]
       ELSE IF ParseSan(op.practice_board, moves[i + 1]) = NoMove
       THEN [op |-> op, correct |-> FALSE, raised |-> TRUE]
       ELSE IF ~IsExpected(move, ParseSan(op.practice_board, moves[i + 1]))
       THEN [op |-> op, correct |-> FALSE, raised |-> FALSE]
       ELSE IF i + 1 >= Len(moves)
       THEN [op |-> pushed, correct |-> TRUE, raised |-> FALSE]
       ELSE IF ParseSan(b1, moves[i + 2]) = NoMove
       THEN [op |-> pushed, correct |-> FALSE, raised |-> TRUE]
       ELSE [op |-> [op EXCEPT !.current_move_index = i + 2,
                               !.practice_board = Push(b1, ParseSan(b1, moves[i + 2]))],
             correct |-> TRUE, raised |-> FALSE]

\* _handle_menu_click, lines 327-333, _start_opening, lines 935-945; the
\* application passes play_as_white = True, the trainer takes either side
StartOpening(o, play_as_white) ==
    /\ mode = "MENU"
    /\ mode' = "OPENING"
    /\ openings' = StartPractice(o, play_as_white)
    /\ board' = openings'.practice_board
    /\ ui' = [ui EXCEPT !.error = FALSE]
    /\ UNCHANGED <<puzzles, endgames>>
    /\ TrainFrame

\* _handle_opening_click, lines 417-428, _handle_board_click, _make_move, lines
\* 545-554: a legal move of the side to move on the board is checked
OpeningMove(m) ==
    /\ mode = "OPENING"
    /\ m \in LegalMoveSet(board)
    /\ openings' = OpeningCheckMove(openings, m).op
    /\ board' = IF OpeningCheckMove(openings, m).correct
                THEN openings'.practice_board ELSE board
    /\ ui' = [ui EXCEPT !.error = OpeningCheckMove(openings, m).raised]
    /\ UNCHANGED <<mode, puzzles, endgames>>
    /\ TrainFrame

\* _handle_opening_click, lines 419-425: New, Menu
OpeningLeave ==
    /\ mode = "OPENING"
    /\ mode' = "MENU"
    /\ UNCHANGED <<board, ui, puzzles, endgames, openings>>
    /\ TrainFrame

\* ------------------------------------------------------ the endgame trainer
\* The lessons have pawn endings, so their boards take the line of squares as
\* a file: a pawn steps towards the far end (White towards the last square,
\* Black towards the first) and is promoted on reaching it.
MaxMoves == 3

PromotionPieces == {QUEEN, ROOK, BISHOP, KNIGHT}

FilePseudoLegal(sq, color) ==
    {[from |-> m.from, to |-> m.to, promotion |-> 0] : m \in PseudoLegal(sq, color)}
    \cup
    {m \in [from : Squares, to : Squares, promotion : PromotionPieces \cup {0}] :
        /\ sq[m.from] = PieceCode(color, PAWN)
        /\ m.to = (IF color = WHITE THEN m.from + 1 ELSE m.from - 1)
        /\ sq[m.to] = Empty
        /\ (m.promotion # 0) = (m.to = (IF color = WHITE THEN NumSquares ELSE 1))}

FileApplyMove(sq, m) ==
    [sq EXCEPT ![m.to] = IF m.promotion # 0
                         THEN PieceCode(PieceColor(sq[m.from]), m.promotion)
                         ELSE sq[m.from],
               ![m.from] = Empty]

\* board.legal_moves
FileLegalMoveSet(b) ==
    {m \in FilePseudoLegal(b.sq, b.turn) : ~InCheck(FileApplyMove(b.sq, m), b.turn)}

FileMoveKey(m) == (m.from * (NumSquares + 1) + m.to) * (KING + 1) + m.promotion

RECURSIVE FileSortMoves(_)
FileSortMoves(S) ==
    IF S = {} THEN <<>>
    ELSE LET m == CHOOSE x \in S : \A y \in S : FileMoveKey(x) <= FileMoveKey(y)
         IN <<m>> \o FileSortMoves(S \ {m})

\* list(board.legal_moves)
FileLegalMoves(b) == FileSortMoves(FileLegalMoveSet(b))

FileIsCheckmate(b) == IsCheck(b) /\ FileLegalMoveSet(b) = {}
FileIsStalemate(b) == ~IsCheck(b) /\ FileLegalMoveSet(b) = {}

\* board.is_game_over()
FileIsGameOver(b) ==
    \/ FileIsCheckmate(b)
    \/ FileIsStalemate(b)
    \/ IsInsufficientMaterial(b)
    \/ (b.halfmove >= SeventyFive /\ FileLegalMoveSet(b) # {})

\* board.push(move)
FilePush(b, m) ==
    [sq |-> FileApplyMove(b.sq, m),
     turn |-> ~b.turn,
     halfmove |-> IF b.sq[m.to] # Empty \/ PieceType(b.sq[m.from]) = PAWN
                  THEN 0 ELSE b.halfmove + 1,
     stack |-> Append(b.stack, [move |-> m, captured |-> b.sq[m.to], halfmove |-> b.halfmove])]

\* _create_endgames, endgames.py lines 28-157: a pawn ending (as "King and
\* Pawn", line 83), a mate with the rook (line 51), and a lesson in which the
\* player has Black (as "Philidor Defense", line 131).
ENDGAMES ==
    LET K == PieceCode(WHITE, KING)
        R == PieceCode(WHITE, ROOK)
        P == PieceCode(WHITE, PAWN)
        k == PieceCode(BLACK, KING)
        r == PieceCode(BLACK, ROOK)
    IN <<[name |-> 1,
          fen |-> Fen(NewBoard(Setup({<<1, k>>, <<NumSquares - 2, K>>,
                                      <<NumSquares - 1, P>>}), WHITE, 0))],
         [name |-> 2,
          fen |-> Fen(NewBoard(Setup({<<1, k>>, <<5, K>>, <<6, R>>}), WHITE, 0))],
         [name |-> 3,
          fen |-> Fen(NewBoard(Setup({<<1, K>>, <<4, k>>, <<5, r>>}), BLACK, 0))]>>

EndgameOf(name) == ENDGAMES[CHOOSE i \in DOMAIN ENDGAMES : ENDGAMES[i].name = name]

\* EndgameTrainer.start_practice, endgames.py lines 163-169
StartPracticeOn(e) ==
    [current_endgame |-> e.name, practice_board |-> BoardFromFen(e.fen), moves_made |-> 0]

\* EndgameTrainer._make_defensive_move, endgames.py lines 212-234: the board
\* after the reply.  The loop keeps the last move that does not give mate and
\* stops at the first such move of the king.
MakeDefensiveMove(b) ==
    IF b = NoBoard \/ FileIsGameOver(b) THEN b
    ELSE
    LET L == FileLegalMoves(b)
        quiet == {i \in DOMAIN L : ~FileIsCheckmate(FilePush(b, L[i]))}
        kings == {i \in quiet : PieceType(b.sq[L[i].from]) = KING}
        first == CHOOSE x \in kings : \A y \in kings : x <= y
        last == CHOOSE x \in quiet : \A y \in quiet : x >= y
    IN IF kings # {} THEN FilePush(b, L[first])
       ELSE IF quiet # {} THEN FilePush(b, L[last])
       ELSE IF L # <<>> THEN FilePush(b, L[1])
       ELSE b

\* EndgameTrainer.make_move, endgames.py lines 182-210: the trainer afterwards,
\* and the success flag it returns.
EndgameMakeMove(eg, move) ==
    IF eg.practice_board = NoBoard \/ eg.current_endgame = 0
    THEN [eg |-> eg, success |-> FALSE]
    ELSE IF move \notin FileLegalMoveSet(eg.practice_board)
    THEN [eg |-> eg, success |-> FALSE]
    ELSE
    LET b1 == FilePush(eg.practice_board, move)
        made == [eg EXCEPT !.practice_board = b1, !.moves_made = @ + 1]
    IN IF FileIsCheckmate(b1) THEN [eg |-> made, success |-> TRUE]
       ELSE IF FileIsStalemate(b1) THEN [eg |-> made, success |-> FALSE]
       ELSE IF move.promotion # 0 THEN [eg |-> made, success |-> TRUE]
       ELSE [eg |-> [made EXCEPT !.practice_board = MakeDefensiveMove(b1)], success |-> TRUE]

\* _handle_menu_click, lines 335-341, _handle_endgame_click, lines 439-441
\* (Reset), _start_endgame, lines 960-970
StartEndgame(e) ==
    /\ mode \in {"MENU", "ENDGAME"}
    /\ mode = "ENDGAME" => endgames.current_endgame = e.name
    /\ mode' = "ENDGAME"
    /\ endgames' = StartPracticeOn(e)
    /\ board' = endgames'.practice_board
    /\ ui' = [ui EXCEPT !.error = FALSE]
    /\ UNCHANGED <<puzzles, openings>>
    /\ TrainFrame

\* _handle_endgame_click, line 449, _handle_board_click, lines 476-510 (a
\* promotion is made to the queen), _make_move, lines 556-563
EndgameMove(m) ==
    /\ mode = "ENDGAME"
    /\ endgames.moves_made < MaxMoves
    /\ m \in FileLegalMoveSet(board)
    /\ m.promotion \in {0, QUEEN}
    /\ endgames' = EndgameMakeMove(endgames, m).eg
    /\ board' = IF endgames'.practice_board # NoBoard
                THEN endgames'.practice_board ELSE board
    /\ ui' = [ui EXCEPT !.error = FALSE]
    /\ UNCHANGED <<mode, puzzles, openings>>
    /\ TrainFrame

\* _handle_endgame_click, lines 442-446: New, Menu
EndgameLeave ==
    /\ mode = "ENDGAME"
    /\ mode' = "MENU"
    /\ UNCHANGED <<board, ui, puzzles, endgames, openings>>
    /\ TrainFrame

\* ---------------------------------------------------- the trainers at work
\* The application shows its menu; the progress file names the puzzles solved
\* in earlier sessions (_load_progress, puzzles.py lines 114-122).
InitTrain ==
    /\ engine = "none"
    /\ difficulty = "MEDIUM"
    /\ caller = NoCaller
    /\ parked = NoThread
    /\ procs = [p \in Procs |-> IF p = 1 THEN "running" ELSE "start"]
    /\ port = 1
    /\ mode = "MENU"
    /\ board = FreshGame.board
    /\ game = [move_history |-> <<>>, position_history |-> FreshGame.position_history]
    /\ ui = [player_color |-> WHITE, game_over |-> FALSE, ai_thinking |-> FALSE,
             paused_game |-> NoPaused, saved_game_moves |-> <<>>,
             game_id |-> 0, playing |-> 0, error |-> FALSE]
    /\ \E solved \in SUBSET PuzzleIds :
          puzzles = [current_puzzle |-> 0, current_move_index |-> 0,
                     solved_puzzles |-> solved, practice_board |-> NoBoard]
    /\ endgames = [current_endgame |-> 0, practice_board |-> NoBoard, moves_made |-> 0]
    /\ openings = [current_opening |-> 0, current_move_index |-> 0,
                   practice_board |-> NoBoard, user_color |-> WHITE]
    /\ positions_evaluated = 0
    /\ pc = "idle"
    /\ frames = <<>>
    /\ ret = 0
    /\ result = NoMove
    /\ call = [depth |-> FallbackDepth, pre |-> board, start |-> 0, pruned |-> FALSE]
    /\ rootValues = <<>>
    /\ history = <<>>

\* One click of the frame loop in the menu or in one of the trainers.
NextTrain ==
    \/ \E i \in DOMAIN BUILTIN_PUZZLES : StartPuzzle(BUILTIN_PUZZLES[i])
    \/ \E m \in [from : Squares, to : Squares] : PuzzleMove(m)
    \/ PuzzleLeave
    \/ \E i \in DOMAIN OPENINGS : \E play_as_white \in BOOLEAN :
          StartOpening(OPENINGS[i], play_as_white)
    \/ \E m \in [from : Squares, to : Squares] : OpeningMove(m)
    \/ OpeningLeave
    \/ \E i \in DOMAIN ENDGAMES : StartEndgame(ENDGAMES[i])
    \/ \E m \in [from : Squares, to : Squares, promotion : {0, QUEEN}] : EndgameMove(m)
    \/ EndgameLeave

SpecTrain == InitTrain /\ [][NextTrain]_vars

\* ------------------------------------------- the search run to its end
\* Searches of depth 1 to 3 from positions with the white king in its corner,
\* the black king anywhere and at most one more black piece.  The interpreter runs the one thread of the program
\* whenever it has a step to take.
InitTerm ==
    /\ AppAlone
    /\ \E k \in {x \in KingsOnly : x[1] = PieceCode(WHITE, KING)},
          b \in Optional(SearchPieces(BLACK)),
          turn \in BOOLEAN, hm \in {0, SeventyFive - 1} :
          /\ Fits(k, b)
          /\ LegalPosition(Place(k, b), turn)
          /\ board = NewBoard(Place(k, b), turn, hm)
    /\ positions_evaluated = 0
    /\ pc = "idle"
    /\ frames = <<>>
    /\ ret = 0
    /\ result = NoMove
    /\ \E d \in 1..FallbackDepth :
          call = [depth |-> d, pre |-> board, start |-> 0, pruned |-> FALSE]
    /\ rootValues = <<>>
    /\ history = <<>>

SpecTerm == InitTerm /\ [][Next]_vars /\ WF_vars(Next)

\* Moves pushed on the board since the search was called.
Applied == Len(board.stack) - Len(call.pre.stack)

\* C16: a search of depth >= 1 terminates.  Each nested call has one less
\* remaining depth than its caller, a node whose moves are being expanded has
\* remaining depth at least 1, never more moves are applied and not yet undone
\* than the depth of the search, and the search returns to its caller.
C16_Terminates ==
    /\ [](call.depth >= 1 =>
            /\ \A i \in 1..(Len(frames) - 1) : frames[i + 1].depth = frames[i].depth - 1
            /\ \A i \in 1..Len(frames) :
                  (i < Len(frames) \/ pc \in {"loop", "return"}) => frames[i].depth >= 1
            /\ \A i \in 1..Len(frames) : frames[i].depth >= 0
            /\ Applied <= call.depth)
    /\ ((call.depth >= 1 /\ pc # "idle") ~> (pc = "idle"))

\* A depth-3 search stands three moves deep, at a leaf.
C16_Witness ==
    /\ call.depth = FallbackDepth
    /\ pc = "enter"
    /\ Applied = FallbackDepth
    /\ Top.depth = 0
    /\ ~IsGameOver(board)

\* C17: the fallback search runs only when the engine is unavailable or its
\* call has failed, and then at depth 3.
C17_FallbackOnly ==
    pc # "idle" => ((engine = "none" \/ caller.failed) /\ call.depth = FallbackDepth)

\* C18: at most one process holds the lock, and the port is bound by that
\* process and no other; a process that tries gets the socket exactly when the
\* lock is free and None when it is held; a process that got None exits without
\* creating the application; the lock is free once its holder has closed it.
C18_SingleInstance ==
    /\ [](/\ Cardinality(Holders) <= 1
          /\ \A p \in Procs : (p \in Holders) <=> (port = p))
    /\ [][\A p \in Procs :
            /\ (procs[p] = "socket" /\ procs'[p] # "socket") =>
                  IF port = FreePort
                  THEN procs'[p] = "bound" /\ port' = p
                  ELSE procs'[p] = "refused" /\ port' = port
            /\ procs[p] \in {"refused", "notice"} =>
                  procs'[p] \in {"refused", "notice", "exited"}
            /\ procs'[p] = "running" => procs[p] \in {"listening", "running"}
            /\ (procs[p] = "running" /\ procs'[p] # "running") => port' = FreePort]_vars

\* One process ran and gave the lock back, a second one holds it and runs the
\* application, a third was turned away meanwhile.
C18_Witness ==
    \E p, q, r \in Procs :
        /\ procs[p] = "exited"
        /\ procs[q] = "running"
        /\ port = q
        /\ procs[r] \in {"refused", "notice"}

\* C19: at every invocation of _minimax the maximizing flag is true exactly
\* when White is to move in the position passed to it.
C19_FlagIsSideToMove ==
    pc = "enter" => (Top.maximizing <=> (board.turn = WHITE))

\* The moves of the active recursive calls, outermost first: frame i waits for
\* the call it made with its move number idx.  Between the return of a call and
\* the board.pop() of its caller the move of the call that returned is still
\* the last one applied.
ActiveMoves ==
    LET n == IF pc \in {"enter", "loop"} THEN Len(frames) - 1
             ELSE IF pc = "return" THEN Len(frames)
             ELSE 0
    IN [i \in 1..n |-> frames[i].moves[frames[i].idx]]

RECURSIVE Replay(_, _)
Replay(b, moves) ==
    IF moves = <<>> THEN b ELSE Replay(Push(b, moves[1]), SubSeq(moves, 2, Len(moves)))

\* C20: at every point of a search the position is the root position plus the
\* moves of the active recursive calls, in order, one per frame, and nothing
\* else: so is the position handed to evaluation, and every call returns with
\* the position it received, after a cutoff as after a full loop.
C20_PositionIsRootPlusActiveMoves ==
    /\ board = Replay(IF pc = "idle" /\ history # <<>> THEN Last.pre ELSE call.pre,
                      ActiveMoves)
    /\ pc \in {"enter", "loop"} => Applied = Len(frames) - 1

\* Two moves below the root a node has just cut its loop short, with moves
\* left untried, and stands on the position it received.
C20_Witness ==
    /\ pc = "loop"
    /\ Top.cut
    /\ Top.idx <= Len(Top.moves)
    /\ Len(frames) = 3
    /\ Applied = 2
    /\ board = Replay(call.pre, ActiveMoves)

\* C21: an invocation of _minimax whose remaining depth is 0 or whose position
\* is over applies no move and returns the static evaluation of its position;
\* for a checkmate that is the extreme value against the side to move, whatever
\* depth remains.
C21_BaseCaseEvaluates ==
    [][(pc = "enter" /\ (Top.depth = 0 \/ IsGameOver(board))) =>
          /\ board' = board
          /\ pc' = "return"
          /\ frames' = DropTop
          /\ ret' = (IF IsCheckmate(board)
                     THEN (IF board.turn = WHITE THEN NegInf ELSE PosInf)
                     ELSE IF IsStalemate(board) \/ IsInsufficientMaterial(board) THEN 0
                     ELSE MaterialBalance(board.sq))]_vars

\* A checkmate met two moves below the root of a depth-3 search, with depth
\* remaining, has returned the extreme value.
C21_Witness ==
    /\ pc = "return"
    /\ call.depth = FallbackDepth
    /\ Len(frames) = 2
    /\ IsCheckmate(board)
    /\ ret = (IF board.turn = WHITE THEN NegInf ELSE PosInf)

\* C22: within one node alpha never decreases and beta never increases; after
\* each child the maximizer sets alpha to max(alpha, value), the minimizer beta
\* to min(beta, value); once beta <= alpha the node applies no further move and
\* returns; the value a node returns is the running extreme, begun at the
\* opposite infinity, of the values of the children it examined.
C22_AlphaBeta ==
    [][/\ (pc = "enter" /\ pc' = "loop") =>
              Top'.best = (IF Top.maximizing THEN NegInf ELSE PosInf)
              /\ Top'.alpha = Top.alpha /\ Top'.beta = Top.beta
       /\ (pc = "return" /\ Top.kind = "node") =>
              /\ Top'.alpha >= Top.alpha
              /\ Top'.beta <= Top.beta
              /\ IF Top.maximizing
                 THEN /\ Top'.alpha = Max(Top.alpha, ret)
                      /\ Top'.beta = Top.beta
                      /\ Top'.best = Max(Top.best, ret)
                 ELSE /\ Top'.beta = Min(Top.beta, ret)
                      /\ Top'.alpha = Top.alpha
                      /\ Top'.best = Min(Top.best, ret)
       /\ (pc = "loop" /\ Len(frames') > Len(frames)) =>
              /\ Top.beta > Top.alpha
              /\ frames'[Len(frames)] = Top
              /\ Top'.alpha = Top.alpha /\ Top'.beta = Top.beta
       /\ (pc = "loop" /\ Top.beta <= Top.alpha) =>
              /\ board' = board
              /\ frames' = DropTop
              /\ ret' = Top.best
       /\ (pc = "loop" /\ Len(frames') < Len(frames)) => ret' = Top.best]_vars

\* A minimizing node has just met beta <= alpha with moves left untried.
C22_Witness ==
    /\ pc = "loop"
    /\ Top.kind = "node"
    /\ ~Top.maximizing
    /\ Top.beta <= Top.alpha
    /\ Top.beta = Top.best
    /\ Top.idx <= Len(Top.moves)

\* Where move m stands in the sequence seq.
PlaceIn(seq, m) == CHOOSE i \in 1..Len(seq) : seq[i] = m

\* The position in which frame i chooses its moves.
PositionOf(i) == Replay(call.pre, [j \in 1..(i - 1) |-> frames[j].moves[frames[j].idx]])

\* C23: the root examines every capture before any other move, each of the two
\* groups in the order of enumeration; below the root the moves are examined in
\* the order of enumeration; the moves of a list are applied one after another
\* in the order of the list.
C23_MoveOrder ==
    /\ [](frames # <<>> =>
            LET order == frames[1].moves
                enum == LegalMoves(call.pre)
            IN /\ Len(order) = Len(enum)
               /\ {order[i] : i \in 1..Len(order)} = LegalMoveSet(call.pre)
               /\ \A i, j \in 1..Len(order) :
                     i < j =>
                        /\ IsCapture(call.pre, order[j]) => IsCapture(call.pre, order[i])
                        /\ (IsCapture(call.pre, order[i]) <=> IsCapture(call.pre, order[j]))
                              => PlaceIn(enum, order[i]) < PlaceIn(enum, order[j])
               /\ \A i \in 2..Len(frames) :
                     (i < Len(frames) \/ pc = "loop") =>
                        frames[i].moves = LegalMoves(PositionOf(i)))
    /\ [][/\ Len(frames') > Len(frames) /\ frames # <<>> =>
                board' = Push(board, Top.moves[Top.idx])
          /\ (Len(frames') = Len(frames) /\ frames # <<>> /\ pc' \in {"root", "loop"}) =>
                /\ Top'.moves = Top.moves \/ pc = "enter"
                /\ Top'.idx = (IF pc = "return" THEN Top.idx + 1 ELSE Top.idx)]_vars

\* The root of a running search has put a capture ahead of a move that was
\* enumerated before it.
C23_Witness ==
    /\ frames # <<>>
    /\ pc # "idle"
    /\ \E i, j \in 1..Len(frames[1].moves) :
          /\ i < j
          /\ IsCapture(call.pre, frames[1].moves[i])
          /\ ~IsCapture(call.pre, frames[1].moves[j])
          /\ PlaceIn(LegalMoves(call.pre), frames[1].moves[j]) <
                PlaceIn(LegalMoves(call.pre), frames[1].moves[i])
    /\ Len(frames) >= 3

\* C24: the game never rests at the computer's turn, not over, with no reply
\* pending: after a move of the player that does not end the game the computer
\* replies.
C24_ComputerReplies ==
    (mode = "PLAY_VS_AI" /\ ~ui.game_over /\ board.turn # ui.player_color)
        => ui.ai_thinking

\* C25: while the move history is not empty the move stack of the board ends
\* with the same moves, and undoing a move never fails.
C25_StackHoldsHistory ==
    /\ ~ui.error
    /\ LET n == Len(game.move_history)
           k == Len(board.stack)
       IN /\ k >= n
          /\ \A i \in 1..n : board.stack[k - n + i].move = game.move_history[i]

\* C28: the game on the board is always the one started last: a game left
\* behind by a new game is not brought back by Resume Game.
C28_ResumesLatestGame ==
    mode = "PLAY_VS_AI" => ui.playing = ui.game_id

\* C26: in a puzzle the index never passes the end of the solution, and a move
\* checked after the puzzle has been solved is answered, not failed on.
C26_IndexWithinSolution ==
    mode = "PUZZLE" =>
        /\ puzzles.current_move_index <= Len(PuzzleOf(puzzles.current_puzzle).solution)
        /\ ~ui.error

\* C27: while an endgame lesson is not over, the side to move on the practice
\* board is the side that was to move when the lesson started: every accepted
\* move of the player has been answered by one move of the opponent.
C27_OpponentHasReplied ==
    (mode = "ENDGAME" /\ ~FileIsGameOver(endgames.practice_board)) =>
        endgames.practice_board.turn = EndgameOf(endgames.current_endgame).fen.turn

\* The moves on a practice board, as text.
MovesMade(b) == [i \in DOMAIN b.stack |-> Uci(b.stack[i].move)]

\* C29: the set of solved puzzles only grows; a puzzle enters it only when the
\* moves on the practice board are its whole solution; and the index, the
\* practice board and the set change only when a puzzle is started or when
\* the move made is the one the solution expects next.
C29_SolvedOnlyByTheSolution ==
    [][LET solution == PuzzleOf(puzzles.current_puzzle).solution
           made == Len(puzzles.practice_board.stack)
           started ==
               /\ mode = "MENU"
               /\ puzzles'.current_move_index = 0
               /\ puzzles'.practice_board.stack = <<>>
               /\ puzzles'.solved_puzzles = puzzles.solved_puzzles
           matched ==
               /\ mode = "PUZZLE"
               /\ puzzles'.current_puzzle = puzzles.current_puzzle
               /\ puzzles.current_move_index < Len(solution)
               /\ puzzles'.current_move_index > puzzles.current_move_index
               /\ Len(puzzles'.practice_board.stack) > made
               /\ MovesMade(puzzles'.practice_board)[made + 1]
                      = solution[puzzles.current_move_index + 1]
               /\ MovesMade(puzzles'.practice_board)
                      = SubSeq(solution, 1, puzzles'.current_move_index)
       IN /\ puzzles.solved_puzzles \subseteq puzzles'.solved_puzzles
          /\ \A id \in puzzles'.solved_puzzles \ puzzles.solved_puzzles :
                /\ id = puzzles'.current_puzzle
                /\ MovesMade(puzzles'.practice_board) = PuzzleOf(id).solution
          /\ puzzles' # puzzles => (started \/ matched)]_vars

\* the three-move puzzle has been solved move by move
C29_Witness ==
    /\ mode = "PUZZLE"
    /\ puzzles.current_puzzle = 3
    /\ puzzles.current_move_index = Len(PuzzleOf(3).solution)
    /\ Len(puzzles.practice_board.stack) = 3
    /\ 3 \in puzzles.solved_puzzles

\* The board after the first n moves of an opening line.
RECURSIVE LineBoard(_, _)
LineBoard(o, n) ==
    IF n = 0 THEN NewBoard(StartingArray, WHITE, 0)
    ELSE LET b == LineBoard(o, n - 1)
             m == CHOOSE x \in LegalMoveSet(b) : San(b, x) = o.moves[n]
         IN Push(b, m)

\* C30: in opening practice the index stays within the line, the practice
\* board holds exactly the first index moves of the line, and either the line
\* is complete or the user is to move; the trainer changes only when practice
\* is started or when the move made is the next move of the line.
C30_PracticeFollowsTheLine ==
    [][LET line == OpeningOf(openings.current_opening)
           line1 == OpeningOf(openings'.current_opening)
           follows ==
               /\ openings'.current_move_index <= Len(line1.moves)
               /\ openings'.practice_board
                      = LineBoard(line1, openings'.current_move_index)
               /\ \/ openings'.current_move_index = Len(line1.moves)
                  \/ openings'.practice_board.turn = openings'.user_color
           started ==
               /\ mode = "MENU"
               /\ openings'.current_move_index = (IF openings'.user_color = WHITE THEN 0 ELSE 1)
           accepted ==
               /\ mode = "OPENING"
               /\ openings'.current_opening = openings.current_opening
               /\ openings'.user_color = openings.user_color
               /\ openings.practice_board.turn = openings.user_color
               /\ openings'.current_move_index > openings.current_move_index
       IN /\ openings'.current_opening # 0 => follows
          /\ openings' # openings => (started \/ accepted)]_vars

\* the line of odd length has been played to its end by the user with White
C30_Witness ==
    /\ mode = "OPENING"
    /\ openings.current_opening = 1
    /\ openings.user_color = WHITE
    /\ openings.current_move_index = Len(OpeningOf(1).moves)
    /\ Len(openings.practice_board.stack) = Len(OpeningOf(1).moves)

====
